---- MODULE Spec2Model ----
(***************************************************************************)
(* Remote ancient-store protocol of core/rawdb: the RPC client             *)
(* (freezer_remote_client.go) and the server facade                        *)
(* (freezer_remote_api.go) in front of the ancient store engine, the       *)
(* freezerRemote.  Binary blobs are sequences of bytes, wire texts are     *)
(* sequences of one-character strings.                                     *)
(***************************************************************************)
EXTENDS Naturals, Sequences, FiniteSets, TLC

VARIABLES
    frozen,     \* engine: the frozen counter
    tables,     \* engine: per category, the sequence of stored blobs
    closed,     \* engine: Close has reached it
    fault,      \* engine: the error its storage answers with, "nil" if none
    client,     \* the FreezerRemoteClient, once constructed, with its status
    closeReturned, \* a Close call of the client has returned
    callers,    \* the goroutines that issue calls (fixed after Init)
    inflight,   \* per caller: the accepted append it is executing in the engine
    last        \* the call that returned most recently, with its outcome;
                \* none once a later call is in the engine or unanswered

vars ==
    <<frozen, tables, closed, fault, client, closeReturned, callers, inflight,
      last>>

(***************************************************************************)
(* Bounds of the model.                                                    *)
(***************************************************************************)
MaxFrozen == 2

Kinds == {"hash", "header", "body", "receipts", "td"}
Numbers == 0..(MaxFrozen + 1)

Goroutines == 1..2

(***************************************************************************)
(* Binary Envelope Codec: hexutil.Encode / hexutil.Decode.                 *)
(***************************************************************************)
HexChars == <<"0", "1", "2", "3", "4", "5", "6", "7",
              "8", "9", "a", "b", "c", "d", "e", "f">>

UpperHex == [i \in 11..16 |-> <<"A", "B", "C", "D", "E", "F">>[i - 10]]

\* The characters of the texts of the model.
Chars == {HexChars[i] : i \in 1..16} \cup {UpperHex[i] : i \in 11..16}
         \cup {"x", "X", "z"}

\* hex.reverseHexTable: the value of a hex digit, 16 for any other character.
ReverseHexTable ==
    [c \in Chars |->
        IF \E i \in 1..16 : HexChars[i] = c
        THEN (CHOOSE i \in 1..16 : HexChars[i] = c) - 1
        ELSE IF \E i \in 11..16 : UpperHex[i] = c
        THEN (CHOOSE i \in 11..16 : UpperHex[i] = c) - 1
        ELSE 16]

HexVal(c) == ReverseHexTable[c]

Text0x == <<"0", "x">>

RECURSIVE EncodeBytes(_)
EncodeBytes(b) ==
    IF b = <<>> THEN <<>>
    ELSE <<HexChars[(Head(b) \div 16) + 1], HexChars[(Head(b) % 16) + 1]>>
         \o EncodeBytes(Tail(b))

\* hexutil.Encode: "0x" followed by two lower-case digits per byte.
Encode(b) == Text0x \o EncodeBytes(b)

Has0xPrefix(input) ==
    Len(input) >= 2 /\ input[1] = "0" /\ (input[2] = "x" \/ input[2] = "X")

\* hex.Decode: the bytes decoded before the first bad digit, and the error.
RECURSIVE HexDecode(_, _)
HexDecode(src, acc) ==
    IF src = <<>> THEN [res |-> acc, err |-> "nil"]
    ELSE IF Len(src) = 1
    THEN [res |-> acc,
          err |-> IF HexVal(src[1]) > 15 THEN "ErrSyntax" ELSE "ErrOddLength"]
    ELSE IF HexVal(src[1]) > 15 \/ HexVal(src[2]) > 15
    THEN [res |-> acc, err |-> "ErrSyntax"]
    ELSE HexDecode(SubSeq(src, 3, Len(src)),
                   Append(acc, HexVal(src[1]) * 16 + HexVal(src[2])))

\* hexutil.Decode: every error of it is a MalformedEnvelope.
Decode(input) ==
    IF input = <<>> THEN [res |-> <<>>, err |-> "ErrEmptyString"]
    ELSE IF ~Has0xPrefix(input) THEN [res |-> <<>>, err |-> "ErrMissingPrefix"]
    ELSE HexDecode(SubSeq(input, 3, Len(input)), <<>>)

MalformedEnvelope ==
    {"ErrEmptyString", "ErrMissingPrefix", "ErrSyntax", "ErrOddLength"}

(***************************************************************************)
(* Ancient Store Engine (freezerRemote), by its contract: per category an  *)
(* ordered sequence of blobs, and the frozen counter.                      *)
(***************************************************************************)
RECURSIVE SumLen(_)
SumLen(blobs) ==
    IF blobs = <<>> THEN 0 ELSE Len(Head(blobs)) + SumLen(Tail(blobs))

EngineHasAncient(kind, number) ==
    IF fault # "nil" THEN [res |-> FALSE, err |-> fault]
    ELSE [res |-> number < Len(tables[kind]), err |-> "nil"]

EngineAncient(kind, number) ==
    IF fault # "nil" THEN [res |-> <<>>, err |-> fault]
    ELSE IF number < Len(tables[kind])
    THEN [res |-> tables[kind][number + 1], err |-> "nil"]
    ELSE [res |-> <<>>, err |-> "NotFound"]

\* A failing engine returns its error beside the count it has.
EngineAncients == [res |-> frozen, err |-> fault]

EngineAncientSize(kind) == [res |-> SumLen(tables[kind]), err |-> fault]

\* The ordering check of AppendAncient: only number = frozen is accepted.
EngineAppendCheck(number) ==
    IF fault # "nil" THEN fault
    ELSE IF frozen # number THEN "OutOfOrderAppend" ELSE "nil"

EngineAppendWrite_SkipsTd(blobs) ==
    [k \in Kinds |-> IF k = "td" THEN tables[k]
                     ELSE Append(tables[k], blobs[k])]

\* The physical write of an accepted append: one blob at the end of each table.
EngineAppendWrite(blobs) ==
    [k \in Kinds |-> Append(tables[k], blobs[k])]

\* The categories in the order the engine writes them.
KindOrder == <<"hash", "header", "body", "receipts", "td">>

\* The write of an accepted append cut short by a shutdown: only the first
\* `written` categories have received their blob.
EngineAppendWritePartial(blobs, written) ==
    [k \in Kinds |->
        IF \E i \in 1..written : KindOrder[i] = k
        THEN Append(tables[k], blobs[k])
        ELSE tables[k]]

\* The commit of an accepted append: the frozen counter is bumped by one.
EngineAppendCommit == frozen + 1

\* A table without its records of number items and above.
Truncated(table, items) ==
    IF Len(table) <= items THEN table ELSE SubSeq(table, 1, items)

EngineTruncateAncients(items) ==
    IF fault # "nil"
    THEN [err |-> fault, frozen |-> frozen, tables |-> tables]
    ELSE IF items > frozen
    THEN [err |-> "InvalidTruncateTarget", frozen |-> frozen, tables |-> tables]
    ELSE [err |-> "nil", frozen |-> items,
          tables |-> [k \in Kinds |-> Truncated(tables[k], items)]]

EngineSync == fault

EngineClose ==
    IF fault # "nil" THEN [err |-> fault, closed |-> closed]
    ELSE [err |-> "nil", closed |-> TRUE]

(***************************************************************************)
(* Server Facade: FreezerRemoteAPI.                                        *)
(***************************************************************************)
FacadePingVersion == "version 1"

FacadeClose_FailsWhenClosed ==
    IF closed THEN [err |-> "AlreadyClosed", closed |-> TRUE] ELSE EngineClose

FacadeClose == EngineClose

FacadeHasAncient_OffByOne(kind, number) == EngineHasAncient(kind, number + 1)

FacadeHasAncient(kind, number) == EngineHasAncient(kind, number)

FacadeAncient_SwallowsError(kind, number) ==
    LET r == EngineAncient(kind, number)
    IN  [res |-> Encode(r.res), err |-> "nil"]

FacadeAncient(kind, number) ==
    LET r == EngineAncient(kind, number)
    IN  IF r.err # "nil"
        THEN [res |-> Text0x, err |-> r.err]
        ELSE [res |-> Encode(r.res), err |-> r.err]

FacadeAncients_SwallowsError == [res |-> EngineAncients.res, err |-> "nil"]

FacadeAncients ==
    LET r == EngineAncients
    IN  IF r.err # "nil" THEN [res |-> 0, err |-> r.err] ELSE r

FacadeAncientSize(kind) ==
    LET r == EngineAncientSize(kind)
    IN  IF r.err # "nil" THEN [res |-> 0, err |-> r.err] ELSE r

NoBlobs == [k \in Kinds |-> <<>>]

\* The decoding part of AppendAncient: the error it returns before the engine
\* is reached, or the five blobs it hands to the engine.
FacadeAppendDecode_HeaderUnchecked(texts) ==
    LET bHash     == Decode(texts["hash"])
        bHeader   == Decode(texts["header"])
        bBody     == Decode(texts["body"])
        bReceipts == Decode(texts["receipts"])
        bTd       == Decode(texts["td"])
    IN  IF bHash.err # "nil"
        THEN [engine |-> FALSE, err |-> bHash.err, blobs |-> NoBlobs]
        ELSE IF bBody.err # "nil"
        THEN [engine |-> FALSE, err |-> bBody.err, blobs |-> NoBlobs]
        ELSE IF bReceipts.err # "nil"
        THEN [engine |-> FALSE, err |-> bReceipts.err, blobs |-> NoBlobs]
        ELSE [engine |-> TRUE, err |-> "nil",
              blobs |-> [k \in Kinds |->
                  CASE k = "hash"     -> bHash.res
                    [] k = "header"   -> bHeader.res
                    [] k = "body"     -> bBody.res
                    [] k = "receipts" -> bReceipts.res
                    [] k = "td"       -> bTd.res]]

FacadeAppendDecode(texts) ==
    LET bHash     == Decode(texts["hash"])
        bHeader   == Decode(texts["header"])
        bBody     == Decode(texts["body"])
        bReceipts == Decode(texts["receipts"])
        bTd       == Decode(texts["td"])
    IN  IF bHash.err # "nil"
        THEN [engine |-> FALSE, err |-> bHash.err, blobs |-> NoBlobs]
        ELSE IF bHeader.err # "nil"
        THEN [engine |-> FALSE, err |-> bHeader.err, blobs |-> NoBlobs]
        ELSE IF bBody.err # "nil"
        THEN [engine |-> FALSE, err |-> bBody.err, blobs |-> NoBlobs]
        ELSE IF bReceipts.err # "nil"
        THEN [engine |-> FALSE, err |-> bReceipts.err, blobs |-> NoBlobs]
        ELSE [engine |-> TRUE, err |-> "nil",
              blobs |-> [k \in Kinds |->
                  CASE k = "hash"     -> bHash.res
                    [] k = "header"   -> bHeader.res
                    [] k = "body"     -> bBody.res
                    [] k = "receipts" -> bReceipts.res
                    [] k = "td"       -> bTd.res]]

\* The end of AppendAncient: the engine's answer is returned as it is.
FacadeAppendResult_Swallowed(engineErr) == "nil"

FacadeAppendResult(engineErr) == engineErr

FacadeTruncateAncients_OneMore(items) ==
    EngineTruncateAncients(IF items > 0 THEN items - 1 ELSE 0)

FacadeTruncateAncients_OffByOne(items) == EngineTruncateAncients(items + 1)

FacadeTruncateAncients(items) == EngineTruncateAncients(items)

FacadeSync == EngineSync

\* The shortest of the five tables.
MinItems ==
    CHOOSE m \in {Len(tables[k]) : k \in Kinds} :
        \A k \in Kinds : m <= Len(tables[k])

FacadeRepair_BodyRestored ==
    [err |-> "nil", frozen |-> MinItems,
     tables |-> [k \in Kinds |-> Truncated(tables[k], MinItems)]]

\* repair: its body is commented out.
FacadeRepair == [err |-> "nil", frozen |-> frozen, tables |-> tables]

(***************************************************************************)
(* Remote Client: FreezerRemoteClient.  `delivered` is whether             *)
(* rpc.Client.Call got the request to the server and its answer back.      *)
(***************************************************************************)
NoClient == [state |-> "absent", status |-> <<>>]

\* pingVersion: answers locally, no request is sent.
ClientPingVersion == [res |-> "version 1", err |-> "nil", requests |-> 0]

\* newFreezerRemoteClient, given the outcome of rpc.Dial.
NewFreezerRemoteClient(dialErr) ==
    IF dialErr # "nil"
    THEN [client |-> NoClient, err |-> dialErr, requests |-> 0]
    ELSE LET ping == ClientPingVersion
         IN  IF ping.err # "nil"
             THEN [client |-> NoClient, err |-> ping.err,
                   requests |-> ping.requests]
             ELSE [client |-> [state |-> "ok",
                               status |-> <<"ok [version=", ping.res, "]">>],
                   err |-> "nil", requests |-> ping.requests]

ClientCallRequests_ResendsOnFailure(delivered) == IF delivered THEN 1 ELSE 2

\* The requests one call of a method sends: each method is one
\* rpc.Client.Call, whose error it returns without sending again.
ClientCallRequests(delivered) == 1

ClientHasAncient(delivered, kind, number) ==
    IF ~delivered THEN [res |-> FALSE, err |-> "TransportError"]
    ELSE LET f == FacadeHasAncient(kind, number)
         IN  [res |-> IF f.err = "nil" THEN f.res ELSE FALSE, err |-> f.err]

ClientAncient_DropsBlob(delivered, kind, number) ==
    IF ~delivered THEN [res |-> <<>>, err |-> "TransportError"]
    ELSE [res |-> <<>>, err |-> FacadeAncient(kind, number).err]

ClientAncient(delivered, kind, number) ==
    IF ~delivered THEN [res |-> <<>>, err |-> "TransportError"]
    ELSE LET f == FacadeAncient(kind, number)
         IN  IF f.err # "nil" THEN [res |-> <<>>, err |-> f.err]
             ELSE Decode(f.res)

ClientAncients(delivered) ==
    IF ~delivered THEN [res |-> 0, err |-> "TransportError"]
    ELSE LET f == FacadeAncients
         IN  [res |-> IF f.err = "nil" THEN f.res ELSE 0, err |-> f.err]

ClientAncientSize(delivered, kind) ==
    IF ~delivered THEN [res |-> 0, err |-> "TransportError"]
    ELSE LET f == FacadeAncientSize(kind)
         IN  [res |-> IF f.err = "nil" THEN f.res ELSE 0, err |-> f.err]

ClientAppendEncode_Swapped(blobs) ==
    [k \in Kinds |->
        Encode(blobs[CASE k = "body" -> "receipts"
                       [] k = "receipts" -> "body"
                       [] OTHER -> k])]

\* The encoding part of AppendAncient: the five wire texts of the request.
ClientAppendEncode(blobs) == [k \in Kinds |-> Encode(blobs[k])]

(***************************************************************************)
(* Inputs of the calls.                                                    *)
(***************************************************************************)
Blobs(hash, header, body, receipts, td) ==
    [k \in Kinds |->
        CASE k = "hash"     -> hash
          [] k = "header"   -> header
          [] k = "body"     -> body
          [] k = "receipts" -> receipts
          [] k = "td"       -> td]

\* The blobs a caller of the client appends: the scenario of the
\* specification, and empty blobs among blobs of several and of high bytes.
ClientBlobs ==
    { Blobs(<<1>>, <<2>>, <<3>>, <<4>>, <<5>>),
      Blobs(<<171, 205>>, <<>>, <<0, 255>>, <<16>>, <<>>) }

\* Texts that hexutil.Decode rejects: "05", "0x5", "0x05zz".
BadTexts ==
    { <<"0", "5">>,
      <<"0", "x", "5">>,
      <<"0", "x", "0", "5", "z", "z">> }

SomeTexts == ClientAppendEncode(Blobs(<<1>>, <<2>>, <<3>>, <<4>>, <<5>>))

\* The texts a peer may send to the facade directly: well-formed upper-case
\* ones, one malformed argument among well-formed ones, and five malformed
\* ones, the first of them empty.
RawTexts ==
    { Blobs(<<"0", "X", "A", "b", "C", "D">>, Text0x,
            <<"0", "x", "0", "0", "F", "f">>, <<"0", "X", "1", "0">>,
            Text0x) }
    \cup { [SomeTexts EXCEPT ![k] = bad] : k \in Kinds, bad \in BadTexts }
    \cup { Blobs(<<>>, <<"0", "x", "z", "z">>, <<"0", "x", "z", "z">>,
                 <<"0", "x", "z", "z">>, <<"0", "x", "z", "z">>) }

(***************************************************************************)
(* The calls.  A call is one step, but an accepted append: the engine      *)
(* checks its number, then writes the blobs, then bumps the frozen         *)
(* counter, and other callers may run in between.                          *)
(***************************************************************************)
None == [pc |-> "none"]

ClientOps ==
    {"hasAncient", "ancient", "ancients", "ancientSize", "appendAncient",
     "truncateAncients", "sync"}

NoCall ==
    [op |-> "none", via |-> "none", kind |-> "none", number |-> 0,
     blobs |-> NoBlobs, texts |-> NoBlobs, ok |-> FALSE, count |-> 0, blob |-> <<>>,
     wire |-> <<>>, err |-> "nil", delivered |-> FALSE, engine |-> FALSE,
     frozen0 |-> 0, afterClose |-> FALSE, closed0 |-> FALSE,
     requests |-> 0]

Returned(op, via) ==
    [NoCall EXCEPT !.op = op, !.via = via, !.frozen0 = frozen,
                   !.afterClose = closeReturned, !.closed0 = closed]

Idle(t) == t \in callers /\ inflight[t].pc = "none"

Usable(t) == Idle(t) /\ client.state = "ok"

Init ==
    /\ frozen = 0
    /\ tables = [k \in Kinds |-> <<>>]
    /\ closed = FALSE
    /\ fault = "nil"
    /\ client = NoClient
    /\ closeReturned = FALSE
    /\ callers = {1}
    /\ inflight = [t \in Goroutines |-> None]
    /\ last = NoCall

\* One goroutine issues calls on a constructed client.
InitEnv ==
    /\ frozen = 0
    /\ tables = [k \in Kinds |-> <<>>]
    /\ closed = FALSE
    /\ fault = "nil"
    /\ client = NewFreezerRemoteClient("nil").client
    /\ closeReturned = FALSE
    /\ callers = {1}
    /\ inflight = [t \in Goroutines |-> None]
    /\ last = NoCall

\* Two goroutines issue calls on one constructed client concurrently.
InitConcurrent ==
    /\ frozen = 0
    /\ tables = [k \in Kinds |-> <<>>]
    /\ closed = FALSE
    /\ fault = "nil"
    /\ client = NewFreezerRemoteClient("nil").client
    /\ closeReturned = FALSE
    /\ callers = {1, 2}
    /\ inflight = [t \in Goroutines |-> None]
    /\ last = NoCall

\* newFreezerRemoteClient.
NewClient(t) ==
    /\ Idle(t)
    /\ client = NoClient
    /\ \E dialErr \in {"nil", "TransportError"} :
        LET r == NewFreezerRemoteClient(dialErr)
        IN  /\ client' = r.client
            /\ last' = [Returned("newFreezerRemoteClient", "client") EXCEPT
                            !.err = r.err, !.count = r.requests]
    /\ UNCHANGED <<fault, frozen, tables, closed, closeReturned, callers, inflight>>

\* FreezerRemoteClient.Close: the request freezer_close.
Close(t) ==
    /\ Usable(t)
    /\ \E delivered \in BOOLEAN :
        LET f == FacadeClose
        IN  /\ closed' = IF delivered THEN f.closed ELSE closed
            /\ last' = [Returned("close", "client") EXCEPT
                            !.delivered = delivered, !.engine = delivered,
                            !.requests = ClientCallRequests(delivered),
                            !.err = IF delivered THEN f.err
                                    ELSE "TransportError"]
    /\ closeReturned' = TRUE
    /\ UNCHANGED <<fault, frozen, tables, client, callers, inflight>>

HasAncient(t) ==
    /\ Usable(t)
    /\ \E delivered \in BOOLEAN, kind \in Kinds, number \in Numbers :
        LET r == ClientHasAncient(delivered, kind, number)
        IN  last' = [Returned("hasAncient", "client") EXCEPT
                        !.kind = kind, !.number = number,
                        !.delivered = delivered, !.engine = delivered,
                        !.requests = ClientCallRequests(delivered),
                        !.ok = r.res, !.err = r.err]
    /\ UNCHANGED <<fault, frozen, tables, closed, client, closeReturned, callers,
                   inflight>>

Ancient(t) ==
    /\ Usable(t)
    /\ \E delivered \in BOOLEAN, kind \in Kinds, number \in Numbers :
        LET r == ClientAncient(delivered, kind, number)
        IN  last' = [Returned("ancient", "client") EXCEPT
                        !.kind = kind, !.number = number,
                        !.delivered = delivered, !.engine = delivered,
                        !.requests = ClientCallRequests(delivered),
                        !.wire = IF delivered
                                 THEN FacadeAncient(kind, number).res
                                 ELSE <<>>,
                        !.blob = r.res, !.err = r.err]
    /\ UNCHANGED <<fault, frozen, tables, closed, client, closeReturned, callers,
                   inflight>>

Ancients(t) ==
    /\ Usable(t)
    /\ \E delivered \in BOOLEAN :
        LET r == ClientAncients(delivered)
        IN  last' = [Returned("ancients", "client") EXCEPT
                        !.delivered = delivered, !.engine = delivered,
                        !.requests = ClientCallRequests(delivered),
                        !.count = r.res, !.err = r.err]
    /\ UNCHANGED <<fault, frozen, tables, closed, client, closeReturned, callers,
                   inflight>>

AncientSize(t) ==
    /\ Usable(t)
    /\ \E delivered \in BOOLEAN, kind \in Kinds :
        LET r == ClientAncientSize(delivered, kind)
        IN  last' = [Returned("ancientSize", "client") EXCEPT
                        !.kind = kind,
                        !.delivered = delivered, !.engine = delivered,
                        !.requests = ClientCallRequests(delivered),
                        !.count = r.res, !.err = r.err]
    /\ UNCHANGED <<fault, frozen, tables, closed, client, closeReturned, callers,
                   inflight>>

\* FreezerRemoteAPI.AppendAncient on the request (number, texts): the texts
\* are decoded, and the engine's ordering check accepts or rejects.
FacadeAppendAncient(t, via, number, blobs, texts) ==
    LET d     == FacadeAppendDecode(texts)
        check == EngineAppendCheck(number)
        ret   == [Returned("appendAncient", via) EXCEPT
                      !.number = number, !.blobs = blobs, !.texts = texts,
                      !.delivered = TRUE, !.engine = d.engine,
                      !.requests = IF via = "client"
                                   THEN ClientCallRequests(TRUE) ELSE 0]
    IN  /\ (d.engine /\ check = "nil") => frozen < MaxFrozen
        /\ IF ~d.engine
           THEN /\ last' = [ret EXCEPT !.err = d.err]
                /\ UNCHANGED inflight
           ELSE IF check # "nil"
           THEN /\ last' = [ret EXCEPT !.err = FacadeAppendResult(check)]
                /\ UNCHANGED inflight
           ELSE /\ inflight' = [inflight EXCEPT ![t] =
                        [pc |-> "write", ret |-> ret, blobs |-> d.blobs]]
                /\ last' = NoCall

\* FreezerRemoteClient.AppendAncient: the request freezer_appendAncient.
AppendAncient(t) ==
    /\ Usable(t)
    /\ \E delivered \in BOOLEAN, number \in Numbers, blobs \in ClientBlobs :
        LET texts == ClientAppendEncode(blobs)
        IN  IF delivered
            THEN FacadeAppendAncient(t, "client", number, blobs, texts)
            ELSE /\ last' = [Returned("appendAncient", "client") EXCEPT
                                !.number = number, !.blobs = blobs,
                                !.texts = texts,
                                !.requests = ClientCallRequests(FALSE),
                                !.err = "TransportError"]
                 /\ UNCHANGED inflight
    /\ UNCHANGED <<fault, frozen, tables, closed, client, closeReturned, callers>>

\* A peer of the RPC server sends freezer_appendAncient with texts of its own.
RawAppendAncient(t) ==
    /\ Idle(t)
    /\ \E number \in Numbers, texts \in RawTexts :
        FacadeAppendAncient(t, "raw", number, NoBlobs, texts)
    /\ UNCHANGED <<fault, frozen, tables, closed, client, closeReturned, callers>>

\* The engine writes the blobs of an accepted append.
AppendWrite(t) ==
    /\ t \in callers
    /\ inflight[t].pc = "write"
    /\ tables' = EngineAppendWrite(inflight[t].blobs)
    /\ inflight' = [inflight EXCEPT ![t].pc = "commit"]
    /\ UNCHANGED <<fault, frozen, closed, client, closeReturned, callers, last>>

\* The engine bumps the frozen counter, and the append returns.
AppendCommit(t) ==
    /\ t \in callers
    /\ inflight[t].pc = "commit"
    /\ frozen' = EngineAppendCommit
    /\ inflight' = [inflight EXCEPT ![t] = None]
    /\ last' = [inflight[t].ret EXCEPT !.err = FacadeAppendResult("nil")]
    /\ UNCHANGED <<fault, tables, closed, client, closeReturned, callers>>

\* FreezerRemoteClient.TruncateAncients: the request freezer_truncateAncients.
TruncateAncients(t) ==
    /\ Usable(t)
    /\ \E delivered \in BOOLEAN, items \in Numbers :
        LET f == FacadeTruncateAncients(items)
        IN  /\ frozen' = IF delivered THEN f.frozen ELSE frozen
            /\ tables' = IF delivered THEN f.tables ELSE tables
            /\ last' = [Returned("truncateAncients", "client") EXCEPT
                            !.number = items,
                            !.delivered = delivered, !.engine = delivered,
                            !.requests = ClientCallRequests(delivered),
                            !.err = IF delivered THEN f.err
                                    ELSE "TransportError"]
    /\ UNCHANGED <<fault, closed, client, closeReturned, callers, inflight>>

\* FreezerRemoteClient.Sync: the request freezer_sync.
Sync(t) ==
    /\ Usable(t)
    /\ \E delivered \in BOOLEAN :
        last' = [Returned("sync", "client") EXCEPT
                    !.delivered = delivered, !.engine = delivered,
                    !.requests = ClientCallRequests(delivered),
                    !.err = IF delivered THEN FacadeSync
                            ELSE "TransportError"]
    /\ UNCHANGED <<fault, frozen, tables, closed, client, closeReturned, callers,
                   inflight>>

\* FreezerRemoteAPI.pingVersion, called in the server's process: the method
\* is unexported, no request reaches it.
PingVersion(t) ==
    /\ Idle(t)
    /\ last' = [Returned("pingVersion", "server") EXCEPT
                    !.wire = <<FacadePingVersion>>]
    /\ UNCHANGED <<fault, frozen, tables, closed, client, closeReturned, callers,
                   inflight>>

\* FreezerRemoteAPI.repair, called in the server's process.
Repair(t) ==
    /\ Idle(t)
    /\ LET f == FacadeRepair
       IN  /\ frozen' = f.frozen
           /\ tables' = f.tables
           /\ last' = [Returned("repair", "server") EXCEPT !.err = f.err]
    /\ UNCHANGED <<fault, closed, client, closeReturned, callers, inflight>>

\* The engine's storage starts or stops failing.
EngineFault ==
    /\ fault' = IF fault = "nil" THEN "EngineError" ELSE "nil"
    /\ UNCHANGED <<frozen, tables, closed, client, closeReturned, callers,
                   inflight, last>>

\* A call of the client whose request the server never answers:
\* rpc.Client.Call is given no context and no deadline, and waits.
Unanswered(t) ==
    /\ Usable(t)
    /\ \E op \in ClientOps \cup {"close"} :
        inflight' = [inflight EXCEPT ![t] =
            [pc |-> "waiting",
             ret |-> [Returned(op, "client") EXCEPT
                          !.requests = ClientCallRequests(FALSE)],
             blobs |-> NoBlobs]]
    /\ last' = NoCall
    /\ UNCHANGED <<fault, frozen, tables, closed, client, closeReturned,
                   callers>>

\* An unclean shutdown of the server during the write of an accepted append,
\* and its restart: some categories have the new blob, the others and the
\* frozen counter do not, and the append is gone.
Crash(t) ==
    /\ t \in callers
    /\ inflight[t].pc = "write"
    /\ \A k \in Kinds : Len(tables[k]) = frozen
    /\ \E written \in 1..(Len(KindOrder) - 1) :
        tables' = EngineAppendWritePartial(inflight[t].blobs, written)
    /\ inflight' = [inflight EXCEPT ![t] = None]
    /\ last' = NoCall
    /\ UNCHANGED <<fault, frozen, closed, client, closeReturned, callers>>

Next ==
    \E t \in Goroutines :
        \/ NewClient(t)
        \/ Close(t)
        \/ HasAncient(t)
        \/ Ancient(t)
        \/ Ancients(t)
        \/ AncientSize(t)
        \/ AppendAncient(t)
        \/ RawAppendAncient(t)
        \/ AppendWrite(t)
        \/ AppendCommit(t)
        \/ TruncateAncients(t)
        \/ Sync(t)
        \/ PingVersion(t)
        \/ Repair(t)

\* One caller: the calls come one after the other.
Spec == Init /\ [][Next]_vars

\* The calls of the client on an engine that may fail and a server that may
\* not answer.
NextEnv ==
    \/ EngineFault
    \/ \E t \in Goroutines :
        \/ Close(t)
        \/ HasAncient(t)
        \/ Ancient(t)
        \/ Ancients(t)
        \/ AncientSize(t)
        \/ AppendAncient(t)
        \/ AppendWrite(t)
        \/ AppendCommit(t)
        \/ TruncateAncients(t)
        \/ Sync(t)
        \/ Unanswered(t)

SpecEnv == InitEnv /\ [][NextEnv]_vars

\* Appends that a shutdown may interrupt, the reads that show the sizes of
\* the categories, and the repair.
NextRecovery ==
    \E t \in Goroutines :
        \/ Ancients(t)
        \/ AncientSize(t)
        \/ AppendAncient(t)
        \/ AppendWrite(t)
        \/ AppendCommit(t)
        \/ Crash(t)
        \/ Repair(t)

SpecRecovery == InitEnv /\ [][NextRecovery]_vars

\* The reads, appends and truncations of the client.
NextConcurrent ==
    \E t \in Goroutines :
        \/ HasAncient(t)
        \/ Ancient(t)
        \/ Ancients(t)
        \/ AncientSize(t)
        \/ AppendAncient(t)
        \/ AppendWrite(t)
        \/ AppendCommit(t)
        \/ TruncateAncients(t)

\* Two callers: the calls of one overlap the calls of the other.
SpecConcurrent == InitConcurrent /\ [][NextConcurrent]_vars

(***************************************************************************)
(* The claims.                                                             *)
(***************************************************************************)
\* No append is in the engine: every call issued so far has returned.
Quiescent == \A t \in Goroutines : inflight[t].pc = "none"

WellFormed(texts) == \A k \in Kinds : Decode(texts[k]).err = "nil"

\* C1: a facade AppendAncient with a malformed hash, header, body, receipts
\* or td returns a MalformedEnvelope error and never reaches the engine.
C1_MalformedNeverReachesEngine ==
    /\ \A t \in Goroutines :
        inflight[t].pc # "none" => WellFormed(inflight[t].ret.texts)
    /\ (last.op = "appendAncient" /\ last.delivered /\ ~WellFormed(last.texts))
        => (last.err \in MalformedEnvelope /\ ~last.engine)

\* C2: a well-formed AppendAncient(number, ...) succeeds if and only if number
\* is the frozen count; on success Ancients() is one more than before the
\* call; on rejection the error is OutOfOrderAppend and the frozen count and
\* the stored records are unchanged.
C2_AppendStep ==
    (/\ last' # last
     /\ last'.op = "appendAncient"
     /\ last'.delivered
     /\ WellFormed(last'.texts))
    => /\ (last'.err = "nil") <=> (last'.number = last'.frozen0)
       /\ last'.err = "nil" =>
            /\ FacadeAncients' = [res |-> last'.frozen0 + 1, err |-> "nil"]
            /\ FacadeAncients' = [res |-> frozen + 1, err |-> "nil"]
       /\ last'.err # "nil" =>
            /\ last'.err = "OutOfOrderAppend"
            /\ frozen' = frozen
            /\ tables' = tables

C2_AppendOrdering == [][C2_AppendStep]_vars

\* With frozen = 1, an append of number 3 is rejected and Ancients() stays 1.
C2_Witness ==
    /\ last.op = "appendAncient"
    /\ last.via = "client"
    /\ last.delivered
    /\ last.frozen0 = 1
    /\ last.number = 3
    /\ last.err = "OutOfOrderAppend"
    /\ FacadeAncients.res = 1

Accepted(t) == inflight[t].pc \in {"write", "commit"}

\* C3: of two concurrent AppendAncient calls with the same number, at most
\* one is accepted.
C3_SameNumberAtMostOneAccepted ==
    \A t, u \in Goroutines :
        (t # u /\ Accepted(t) /\ Accepted(u))
            => inflight[t].ret.number # inflight[u].ret.number

\* C4: once the calls issued have returned, HasAncient(category, n) is true
\* if and only if n < Ancients(), for every category and every n.
C4_ExistenceMonotonicity ==
    Quiescent =>
        \A kind \in Kinds, n \in Numbers :
            /\ ClientHasAncient(TRUE, kind, n).err = "nil"
            /\ ClientHasAncient(TRUE, kind, n).res
                   = (n < ClientAncients(TRUE).res)

\* HasAncient has answered true for number 1 after a truncation or a failed
\* append left two records.
C4_Witness ==
    /\ Quiescent
    /\ last.op = "hasAncient"
    /\ last.delivered
    /\ last.number = 1
    /\ last.ok
    /\ ~ClientHasAncient(TRUE, last.kind, 2).res

\* C5: TruncateAncients(t) with t > Ancients() fails with
\* InvalidTruncateTarget and changes nothing; with t <= Ancients() it
\* succeeds, and then Ancients() = t, and for every category and every
\* n >= t, HasAncient is false and Ancient fails with NotFound.
C5_TruncateStep ==
    (/\ last' # last
     /\ last'.op = "truncateAncients"
     /\ last'.delivered)
    => IF last'.number > ClientAncients(TRUE).res
       THEN /\ last'.err = "InvalidTruncateTarget"
            /\ frozen' = frozen
            /\ tables' = tables
       ELSE /\ last'.err = "nil"
            /\ ClientAncients(TRUE)' = [res |-> last'.number, err |-> "nil"]
            /\ \A kind \in Kinds, n \in Numbers :
                n >= last'.number =>
                    /\ ClientHasAncient(TRUE, kind, n)'
                           = [res |-> FALSE, err |-> "nil"]
                    /\ ClientAncient(TRUE, kind, n)'.err = "NotFound"

C5_TruncateBounds == [][C5_TruncateStep]_vars

\* A full store has been truncated to zero.
C5_Witness ==
    /\ last.op = "truncateAncients"
    /\ last.delivered
    /\ last.frozen0 = MaxFrozen
    /\ last.number = 0
    /\ last.err = "nil"
    /\ ClientAncient(TRUE, "hash", 0).err = "NotFound"

\* C6: once the calls issued have returned, the five categories hold the
\* same number of records, the frozen count; a truncation included.
C6_CrossCategoryAlignment ==
    Quiescent => \A kind \in Kinds : Len(tables[kind]) = frozen

\* A truncation has cut two records of every category down to one.
C6_Witness ==
    /\ Quiescent
    /\ last.op = "truncateAncients"
    /\ last.err = "nil"
    /\ last.frozen0 = 2
    /\ last.number = 1
    /\ \A kind \in Kinds : Len(tables[kind]) = 1

\* C7: after a successful AppendAncient(n, ...) of the client the engine
\* holds exactly the five blobs of the caller, the empty blob travelling as
\* "0x"; and Ancient(category, n) of the client returns exactly the blob the
\* engine holds for that category.
C7_BinaryRoundTrip ==
    /\ \A blobs \in ClientBlobs, kind \in Kinds :
        /\ Decode(Encode(blobs[kind])) = [res |-> blobs[kind], err |-> "nil"]
        /\ blobs[kind] = <<>> => ClientAppendEncode(blobs)[kind] = Text0x
    /\ (Quiescent /\ last.op = "appendAncient" /\ last.via = "client"
            /\ last.err = "nil")
        => \A kind \in Kinds :
            /\ EngineAncient(kind, last.number)
                   = [res |-> last.blobs[kind], err |-> "nil"]
            /\ ClientAncient(TRUE, kind, last.number)
                   = [res |-> last.blobs[kind], err |-> "nil"]
    /\ Quiescent =>
        \A kind \in Kinds, n \in Numbers :
            n < frozen =>
                ClientAncient(TRUE, kind, n)
                    = [res |-> tables[kind][n + 1], err |-> "nil"]

\* After AppendAncient(0, 0x01, 0x02, 0x03, 0x04, 0x05) the client has read
\* Ancient("hash", 0) = 0x01, and an empty header is stored beside it.
C7_Witness ==
    /\ last.op = "ancient"
    /\ last.delivered
    /\ last.kind = "hash"
    /\ last.number = 0
    /\ last.err = "nil"
    /\ last.blob = <<1>>
    /\ tables["td"][1] = <<5>>
    /\ frozen = 2
    /\ ClientAncient(TRUE, "header", 1) = [res |-> <<>>, err |-> "nil"]

\* C8: when the engine's Ancient fails, the facade's Ancient returns "0x"
\* with that same error; when it succeeds, the hex encoding of the blob with
\* no error.
C8_AncientOutcome ==
    /\ \A kind \in Kinds, n \in Numbers :
        LET e == EngineAncient(kind, n)
            f == FacadeAncient(kind, n)
        IN  IF e.err # "nil"
            THEN f = [res |-> Text0x, err |-> e.err]
            ELSE f = [res |-> Encode(e.res), err |-> "nil"]
    /\ (last.op = "ancient" /\ last.delivered) =>
        /\ last.err # "nil" => (last.wire = Text0x /\ last.err = "NotFound")
        /\ last.err = "nil" =>
            last.wire = Encode(EngineAncient(last.kind, last.number).res)

\* Ancient of a number that is not frozen has returned "0x" with NotFound.
C8_Witness ==
    /\ last.op = "ancient"
    /\ last.delivered
    /\ last.number >= frozen
    /\ last.err = "NotFound"
    /\ last.wire = Text0x
    /\ frozen > 0

\* C9: the construction of the client sends a version probe to the server,
\* and succeeds only if the server answered it.
C9_ConstructionProbesServer ==
    (last.op = "newFreezerRemoteClient" /\ last.err = "nil") => last.count >= 1

\* C10: once Close has returned, no later call of the client is delivered to
\* the facade or the engine: each fails with a transport error.
C10_NoDeliveryAfterClose ==
    /\ \A t \in Goroutines :
        inflight[t].pc # "none" =>
            ~(inflight[t].ret.via = "client" /\ inflight[t].ret.afterClose)
    /\ (last.op \in ClientOps /\ last.via = "client" /\ last.afterClose)
        => (~last.delivered /\ ~last.engine /\ last.err = "TransportError")

\* C11: a Close that reaches the engine after an earlier Close closed it
\* returns without error and changes nothing: the engine stays closed, and
\* the frozen count, the records and the client are as before.
C11_CloseStep ==
    (/\ last'.op = "close"
     /\ last'.delivered
     /\ last'.closed0)
    => /\ last'.err = "nil"
       /\ closed /\ closed'
       /\ frozen' = frozen
       /\ tables' = tables
       /\ client' = client
       /\ inflight' = inflight

C11_CloseIdempotent == [][C11_CloseStep]_vars

\* A second Close has reached the closed engine of a store of two records,
\* and returned without error.
C11_Witness ==
    /\ last.op = "close"
    /\ last.via = "client"
    /\ last.delivered
    /\ last.closed0
    /\ last.afterClose
    /\ last.err = "nil"
    /\ closed
    /\ frozen = 2

\* C12: a facade AppendAncient whose header is not valid hex returns a
\* MalformedEnvelope error without reaching the engine, and leaves the frozen
\* count and the records of every category unchanged, whatever the number
\* and the other four texts.
C12_HeaderStep ==
    /\ \A t \in Goroutines :
        inflight'[t].pc # "none" =>
            Decode(inflight'[t].ret.texts["header"]).err = "nil"
    /\ (/\ last' # last
        /\ last'.op = "appendAncient"
        /\ last'.delivered
        /\ Decode(last'.texts["header"]).err # "nil")
       => /\ last'.err \in MalformedEnvelope
          /\ ~last'.engine
          /\ ClientAncients(TRUE)' = ClientAncients(TRUE)
          /\ frozen' = frozen
          /\ tables' = tables
          /\ inflight' = inflight

C12_MalformedHeaderNoEffect == [][C12_HeaderStep]_vars

\* AppendAncient(1, "0x01", "0x5", "0x03", "0x04", "0x05") has failed on its
\* header alone, with number = frozen = 1.
C12_Witness ==
    /\ last.op = "appendAncient"
    /\ last.via = "raw"
    /\ last.delivered
    /\ last.number = 1
    /\ last.frozen0 = 1
    /\ frozen = 1
    /\ last.texts = [SomeTexts EXCEPT !["header"] = <<"0", "x", "5">>]
    /\ last.err = "ErrOddLength"
    /\ \A kind \in Kinds : Len(tables[kind]) = 1

\* C13: whenever the engine answers an operation with an error, the facade
\* returns that same error, never success: for Close, HasAncient, Ancient,
\* Ancients, AncientSize, a well-formed AppendAncient, TruncateAncients and
\* Sync; Ancients and AncientSize return the count 0 beside it; and the call
\* of the client that the facade answered returns the engine's error.
C13_FacadeReturnsEngineError ==
    /\ \A kind \in Kinds, n \in Numbers :
        /\ EngineHasAncient(kind, n).err # "nil" =>
               FacadeHasAncient(kind, n).err = EngineHasAncient(kind, n).err
        /\ EngineAncient(kind, n).err # "nil" =>
               FacadeAncient(kind, n).err = EngineAncient(kind, n).err
        /\ EngineAncientSize(kind).err # "nil" =>
               FacadeAncientSize(kind)
                   = [res |-> 0, err |-> EngineAncientSize(kind).err]
        /\ EngineAppendCheck(n) # "nil" =>
               FacadeAppendResult(EngineAppendCheck(n)) = EngineAppendCheck(n)
        /\ EngineTruncateAncients(n).err # "nil" =>
               FacadeTruncateAncients(n).err = EngineTruncateAncients(n).err
    /\ EngineAncients.err # "nil" =>
           FacadeAncients = [res |-> 0, err |-> EngineAncients.err]
    /\ EngineSync # "nil" => FacadeSync = EngineSync
    /\ EngineClose.err # "nil" => FacadeClose.err = EngineClose.err

C13_ClientStep ==
    (last' # last /\ last'.delivered /\ last'.via = "client") =>
        LET c == last'
            e == CASE c.op = "close" -> EngineClose.err
                   [] c.op = "hasAncient" ->
                        EngineHasAncient(c.kind, c.number).err
                   [] c.op = "ancient" -> EngineAncient(c.kind, c.number).err
                   [] c.op = "ancients" -> EngineAncients.err
                   [] c.op = "ancientSize" -> EngineAncientSize(c.kind).err
                   [] c.op = "appendAncient" ->
                        IF \E t \in Goroutines : inflight[t].pc = "commit"
                        THEN "nil"
                        ELSE EngineAppendCheck(c.number)
                   [] c.op = "truncateAncients" ->
                        EngineTruncateAncients(c.number).err
                   [] c.op = "sync" -> EngineSync
        IN  /\ c.err = e
            /\ (e # "nil" /\ c.op \in {"ancients", "ancientSize"})
                   => c.count = 0

C13_EngineErrorsPropagated ==
    []C13_FacadeReturnsEngineError /\ [][C13_ClientStep]_vars

\* With two records frozen the engine has failed, and Ancients has returned
\* 0 with the engine's error.
C13_Witness ==
    /\ last.op = "ancients"
    /\ last.delivered
    /\ last.err = "EngineError"
    /\ last.count = 0
    /\ fault = "EngineError"
    /\ frozen = 2

\* C14: every call of the client sends one request, and the engine is
\* reached only through a delivered request; a call that failed has changed
\* neither the frozen count nor the records, and an append that succeeded
\* has added one record to each category and one to the frozen count.
C14_RequestStep ==
    /\ \A t \in Goroutines :
        (inflight'[t].pc # "none" /\ inflight'[t].ret.via = "client")
            => inflight'[t].ret.requests = 1
    /\ (last'.via = "client" /\ last'.op \in ClientOps \cup {"close"})
        => /\ last'.requests = 1
           /\ last'.engine => last'.delivered
    /\ (/\ last' # last
        /\ last'.via = "client"
        /\ last'.op \in ClientOps \cup {"close"}
        /\ last'.err # "nil")
       => /\ frozen' = frozen
          /\ tables' = tables
          /\ inflight' = inflight
    /\ (/\ last' # last
        /\ last'.via = "client"
        /\ last'.op = "appendAncient"
        /\ last'.err = "nil")
       => /\ frozen' = last'.frozen0 + 1
          /\ \A kind \in Kinds : Len(tables'[kind]) = last'.frozen0 + 1

C14_OneRequestPerCall == [][C14_RequestStep]_vars

\* An append of the number 1 = frozen was not delivered: it has returned
\* the transport error after one request, and one record is frozen as before.
C14_Witness ==
    /\ last.op = "appendAncient"
    /\ last.via = "client"
    /\ ~last.delivered
    /\ last.err = "TransportError"
    /\ last.requests = 1
    /\ last.number = 1
    /\ frozen = 1
    /\ \A kind \in Kinds : Len(tables[kind]) = 1

\* C15: HasAncient(category, n) answers true, and Ancient(category, n)
\* succeeds, only when the frozen count is already above n: no read observes
\* the record of an append that has not been committed.
C15_CommitBeforeRead ==
    (/\ last.delivered
     /\ \/ last.op = "hasAncient" /\ last.ok
        \/ last.op = "ancient" /\ last.err = "nil")
    => last.number < last.frozen0

IsPrefix(s, t) == Len(s) <= Len(t) /\ SubSeq(t, 1, Len(s)) = s

\* C16: the blob of a committed number n stays what it is, and Ancient
\* returns it, in every step but a successful TruncateAncients with a target
\* of at most n; an AppendAncient, accepted, rejected or malformed, changes
\* no committed blob; and a table only grows at its end or loses a suffix,
\* the latter by a successful truncation.
C16_ImmutableStep ==
    tables' # tables =>
        \A kind \in Kinds :
            /\ \A n \in Numbers :
                (n < frozen /\ n < Len(tables[kind])) =>
                    \/ /\ ClientAncient(TRUE, kind, n).err = "nil"
                       /\ ClientAncient(TRUE, kind, n)'
                              = ClientAncient(TRUE, kind, n)
                       /\ tables'[kind][n + 1] = tables[kind][n + 1]
                    \/ /\ last'.op = "truncateAncients"
                       /\ last'.delivered
                       /\ last'.err = "nil"
                       /\ last'.number <= n
            /\ \/ IsPrefix(tables[kind], tables'[kind])
               \/ /\ IsPrefix(tables'[kind], tables[kind])
                  /\ last'.op = "truncateAncients"
                  /\ last'.err = "nil"
                  /\ Len(tables'[kind]) = last'.number

C16_AppendOnly == [][C16_ImmutableStep]_vars

\* A second record has been appended behind the first, and a truncation to
\* one record has removed it: the first record is what it was.
C16_Witness ==
    /\ last.op = "truncateAncients"
    /\ last.err = "nil"
    /\ last.frozen0 = 2
    /\ last.number = 1
    /\ tables["hash"] = << <<1>> >>
    /\ ClientAncient(TRUE, "hash", 0) = [res |-> <<1>>, err |-> "nil"]

\* C17: every call of the client returns: a call that has been issued and
\* has not returned can take the step that brings it to its return.
C17_EveryCallReturns ==
    \A t \in Goroutines :
        inflight[t].pc # "none" => ENABLED (AppendWrite(t) \/ AppendCommit(t))

\* C18: repair returns success and leaves the frozen count and the records
\* of every category unchanged, also when the categories differ in length;
\* it runs in the server's process only, and the reads of the client leave
\* the lengths as they are.
C18_RepairStep ==
    /\ last'.op = "repair" =>
        /\ last'.via = "server"
        /\ last'.err = "nil"
        /\ frozen' = frozen
        /\ tables' = tables
        /\ \A kind \in Kinds : Len(tables'[kind]) = Len(tables[kind])
    /\ (last' # last /\ last'.via = "client"
            /\ last'.op \in {"ancients", "ancientSize"})
        => (frozen' = frozen /\ tables' = tables)

ReadOps == {"hasAncient", "ancient", "ancients", "ancientSize"}

\* C19: a HasAncient, Ancient, Ancients or AncientSize, whether it succeeds
\* or fails, leaves the frozen count, the records and the appends in flight
\* unchanged; and an Ancient of a committed number returns the committed
\* blob, also while an append of another caller is in flight.
C19_ReadStep ==
    (last' # last /\ last'.op \in ReadOps) =>
        /\ frozen' = frozen
        /\ tables' = tables
        /\ closed' = closed
        /\ inflight' = inflight
        /\ (/\ last'.op = "ancient"
            /\ last'.delivered
            /\ last'.number < frozen
            /\ last'.number < Len(tables[last'.kind]))
           => /\ last'.err = "nil"
              /\ last'.blob = tables[last'.kind][last'.number + 1]

C19_ReadsHaveNoEffect == [][C19_ReadStep]_vars

\* Ancient("hash", 0) has returned the committed blob 0x01 while the other
\* caller's append of the number 1 is being written.
C19_Witness ==
    /\ last.op = "ancient"
    /\ last.delivered
    /\ last.kind = "hash"
    /\ last.number = 0
    /\ last.err = "nil"
    /\ last.blob = <<1>>
    /\ frozen = 1
    /\ \E t \in Goroutines :
        /\ inflight[t].pc = "write"
        /\ inflight[t].ret.number = 1

====
